---- MODULE Spec2Model ----
(***************************************************************************)
(* Run orchestration and tool dispatch of the agent labs scripts:          *)
(*   a2a_orchestrator.py   (discovery, name resolution, run_orchestrator)  *)
(*   mcp_bridge_example.py (main_async)                                    *)
(*   mslearn_mcp_client.py (MSLearnMCPClient.connect_and_run and its       *)
(*                          _handle_tool_calls)                            *)
(*   single_agent.py       (run_agent_with_tools)                          *)
(*   a2a_servers/title_agent (TitleAgentExecutor, TitleAgent)              *)
(* One behaviour drives one run with one of the four drivers, or calls     *)
(* resolve_agent_name or get_remote_addresses on its own, or serves the    *)
(* execute requests of one A2A executor.  The agent                        *)
(* runtime, the remote agents and the MCP tool session are the             *)
(* environment: what they answer is chosen nondeterministically.           *)
(* Text is a sequence of one-character strings, so that lower(), strip(),  *)
(* join() and the substring test are computed as Python computes them.     *)
(***************************************************************************)
EXTENDS Integers, Sequences, FiniteSets, TLC

VARIABLES
    driver,          \* what this behaviour executes: one of the four run
                     \* drivers, a function on its own, or the executor
    pc,              \* the driver's control point
    urls,            \* discover_remote_agents: its input list
    di,              \* discover_remote_agents: position of the for loop
    connections,     \* the directory (dict name -> RemoteAgentConnection)
    failures,        \* addresses whose fetch failure was logged
    fetched,         \* the metadata fetches made so far and their results
    run,             \* the run as the last status read returned it
    idx,             \* position of the for loop over the round's tool calls
    outputs,         \* the batch being collected in the round (idx and
                     \* outputs are dead outside a round: a status read
                     \* resets them)
    submits,         \* submit_tool_outputs calls since the last status read
    lastSubmit,      \* the batch passed to the last of them
    iteration,       \* _handle_tool_calls: its loop counter
    finalRead,       \* _handle_tool_calls: the read after the loop took place
    thread,          \* the thread's messages, oldest first, when listed
    outcome,         \* what the driver returned or printed
    onlyInProgress,  \* every status read so far returned in_progress
    everSubmitted,   \* some submit_tool_outputs call was made
    invoked,         \* the executor invocations of the round, in order: remote
                     \* sends, call_tool calls, local handler calls
    received,        \* what each of these invocations returned, in the same
                     \* order
    repeated,        \* the round shows again the calls of the round before,
                     \* which was answered
    environ,         \* get_remote_addresses called on its own: os.environ
    addresses,       \* get_remote_addresses called on its own: its result
    directory,       \* resolve_agent_name called on its own: connections
    reqName,         \* resolve_agent_name called on its own: requested
    reqTask,         \* resolve_agent_name called on its own: task
    resolution,      \* resolve_agent_name called on its own: its result
    agent,           \* connect_and_run, run_orchestrator: the agent they
                     \* create on the runtime ("none" before create_agent)
    deletions,       \* the delete_agent calls made for it
    pending,         \* connect_and_run: an exception is propagating out of
                     \* the inner try block
    result,          \* connect_and_run: what it returned
    env_set,         \* title_agent: PROJECT_ENDPOINT and MODEL_DEPLOYMENT_NAME
                     \* are set
    foundry_agent,   \* TitleAgentExecutor._foundry_agent: None, or the
                     \* TitleAgent with its field agent
    constructed,     \* the TitleAgent objects constructed
    created,         \* the client.create_agent calls made
    requests         \* the execute requests: their message parts, how far
                     \* _process_request is, the responses of the
                     \* conversation, the events it published on the task,
                     \* and the agent its conversation ran on

vars == <<driver, pc, urls, di, connections, failures, fetched,
          run, idx, outputs, submits, lastSubmit, iteration, finalRead,
          thread, outcome, onlyInProgress, everSubmitted, invoked, received,
          repeated,
          directory, reqName, reqTask, resolution, environ, addresses,
          agent, deletions, pending, result,
          env_set, foundry_agent, constructed, created, requests>>

executorVars == <<env_set, foundry_agent, constructed, created, requests>>

agentVars == <<agent, deletions, pending, result>>

addressVars == <<environ, addresses>>

resolverVars == <<directory, reqName, reqTask, resolution>>

discoveryVars == <<urls, di, connections, failures, fetched>>

\* ------------------------------------------------------------------ bounds
MaxCalls == 2
MaxUrls == 2
MaxMessages == 2
MaxProviders == 2
MaxCsvItems == 2
MaxRequests == 2

\* --------------------------------------------------------------- constants
max_iterations == 30

\* -------------------------------------------------------------------- text
S_title == <<"t","i","t","l","e">>
S_outline == <<"o","u","t","l","i","n","e">>
S_headline == <<"h","e","a","d","l","i","n","e">>
S_blogtitlegenerator ==
    <<"b","l","o","g","t","i","t","l","e","g","e","n","e","r","a","t","o","r">>
S_generate_blog_title ==
    <<"g","e","n","e","r","a","t","e","_","b","l","o","g","_","t","i","t","l","e">>
S_outlinecreator ==
    <<"o","u","t","l","i","n","e","c","r","e","a","t","o","r">>
S_generate_outline ==
    <<"g","e","n","e","r","a","t","e","_","o","u","t","l","i","n","e">>

UpperToLower ==
    [c \in {"A","B","E","G","H","I","L","N","O","T","U","X"} |->
        CASE c = "A" -> "a" [] c = "B" -> "b" [] c = "E" -> "e"
          [] c = "G" -> "g" [] c = "H" -> "h"
          [] c = "I" -> "i" [] c = "L" -> "l" [] c = "N" -> "n"
          [] c = "O" -> "o" [] c = "T" -> "t" [] c = "U" -> "u"
          [] c = "X" -> "x"]

\* str.lower()
Lower(s) ==
    [i \in 1..Len(s) |->
        IF s[i] \in DOMAIN UpperToLower THEN UpperToLower[s[i]] ELSE s[i]]

\* the Python test  kw in s  on strings
Contains(s, kw) ==
    \E i \in 1..(Len(s) - Len(kw) + 1) : SubSeq(s, i, i + Len(kw) - 1) = kw

Whitespace == {" ", "\n"}

RECURSIVE LStrip(_)
LStrip(s) ==
    IF s # << >> /\ Head(s) \in Whitespace THEN LStrip(Tail(s)) ELSE s

RECURSIVE RStrip(_)
RStrip(s) ==
    IF s # << >> /\ s[Len(s)] \in Whitespace
    THEN RStrip(SubSeq(s, 1, Len(s) - 1)) ELSE s

\* str.strip()
Strip(s) == RStrip(LStrip(s))

\* sep.join(parts)
RECURSIVE Join(_, _)
Join(sep, parts) ==
    IF parts = << >> THEN << >>
    ELSE IF Len(parts) = 1 THEN parts[1]
    ELSE parts[1] \o sep \o Join(sep, Tail(parts))

None == <<"None">>

\* Python truth value of a str-or-None
Truthy(x) == x # None /\ x # << >>

Reverse(s) == [i \in 1..Len(s) |-> s[Len(s) + 1 - i]]

SeqsUpTo(S, n) == UNION {[1..k -> S] : k \in 1..n}

\* ------------------------------------------------- capability directory
\* AgentCard values the metadata fetch can deliver
N_TA == <<"T","A">>
N_OA == <<"O","A">>
SkillTitle == [id |-> S_title, name |-> <<"T","i","t","l","e">>, tags |-> <<<<"b","l","o","g">>>>]
SkillOutline == [id |-> <<"s","1">>, name |-> <<"O","L">>, tags |-> <<S_outline>>]
CardTitle == [name |-> N_TA, skills |-> <<SkillTitle>>]
CardOutline == [name |-> N_OA, skills |-> <<SkillOutline>>]
Cards == {CardTitle, CardOutline}
FetchFailed == [name |-> None, skills |-> << >>]
FetchResults == Cards \cup {FetchFailed}

\* a dict in insertion order: a sequence of entries with distinct names
Keys(d) == [i \in 1..Len(d) |-> d[i].name]
HasKey(d, k) == \E i \in 1..Len(d) : d[i].name = k

\* result[card.name] = RemoteAgentConnection(card, address)
DictSet(d, e) ==
    IF HasKey(d, e.name)
    THEN [i \in 1..Len(d) |-> IF d[i].name = e.name THEN e ELSE d[i]]
    ELSE Append(d, e)

RemoteAgentConnection(card, url) == [name |-> card.name, card |-> card, url |-> url]

\* the except branch of the discovery loop: log, go on with the next address
AfterFetchFailureRetry(i, n) == i
AfterFetchFailureAbort(i, n) == n + 1
AfterFetchFailure(i, n) == i + 1

\* discover_remote_agents, "if not urls: return result"
DiscoverNoUrls ==
    /\ pc = "discover" /\ urls = << >>
    /\ pc' = "poll"
    /\ agent' = "created"
    /\ UNCHANGED <<deletions, pending, result, executorVars, addressVars, resolverVars, invoked, received, repeated, driver, urls, di, connections, failures, fetched, run, idx,
                   outputs, submits, lastSubmit, iteration, finalRead, thread,
                   outcome, onlyInProgress, everSubmitted>>

\* one pass of "for address in urls": the fetch and the insert, or the log
DiscoverAddress ==
    /\ pc = "discover" /\ urls # << >> /\ di <= Len(urls)
    /\ \E r \in FetchResults :
          /\ fetched' = Append(fetched, [address |-> urls[di], card |-> r])
          /\ IF r = FetchFailed
             THEN /\ failures' = Append(failures, urls[di])
                  /\ connections' = connections
                  /\ di' = AfterFetchFailure(di, Len(urls))
             ELSE /\ connections' = DictSet(connections, RemoteAgentConnection(r, urls[di]))
                  /\ failures' = failures
                  /\ di' = di + 1
    /\ UNCHANGED <<agentVars, executorVars, addressVars, resolverVars, invoked, received, repeated, driver, pc, urls, run, idx, outputs, submits, lastSubmit,
                   iteration, finalRead, thread, outcome, onlyInProgress,
                   everSubmitted>>

\* "return result" after the loop; run_orchestrator then creates the agent
\* (create_agent), the thread and the run
DiscoverReturn ==
    /\ pc = "discover" /\ urls # << >> /\ di > Len(urls)
    /\ pc' = "poll"
    /\ agent' = "created"
    /\ UNCHANGED <<deletions, pending, result, executorVars, addressVars, resolverVars, invoked, received, repeated, driver, urls, di, connections, failures, fetched, run, idx,
                   outputs, submits, lastSubmit, iteration, finalRead, thread,
                   outcome, onlyInProgress, everSubmitted>>

\* ------------------------------------------------------- name resolver
SkillText(s) == Lower(Join(<<" ">>, <<s.id, s.name, Join(<<" ">>, s.tags)>>))

_name_matches_skill(card, keywords) ==
    \E i \in 1..Len(card.skills) :
        \E k \in keywords : Contains(SkillText(card.skills[i]), k)

BySkillReversed(conns, keywords) ==
    Reverse(SelectSeq(Keys(conns),
                      LAMBDA n : \E i \in 1..Len(conns) :
                                    /\ conns[i].name = n
                                    /\ _name_matches_skill(conns[i].card, keywords)))
BySkillOrNone(conns, keywords) ==
    LET found == SelectSeq(Keys(conns),
                           LAMBDA n : \E i \in 1..Len(conns) :
                                         /\ conns[i].name = n
                                         /\ _name_matches_skill(conns[i].card, keywords))
    IN  IF found = << >> THEN <<None>> ELSE found
BySkill(conns, keywords) ==
    SelectSeq(Keys(conns),
              LAMBDA n : \E i \in 1..Len(conns) :
                            /\ conns[i].name = n
                            /\ _name_matches_skill(conns[i].card, keywords))

ExactMatchesRequested(requested, conns) ==
    IF \E i \in 1..Len(conns) : Lower(conns[i].name) = Lower(requested)
    THEN <<requested>> ELSE << >>
ExactMatchesSkipped(requested, conns) == << >>
ExactMatches(requested, conns) ==
    SelectSeq(Keys(conns), LAMBDA n : Lower(n) = Lower(requested))

TitleNicknamesShort == {S_title, S_generate_blog_title}
TitleNicknames == {S_blogtitlegenerator, S_title, S_generate_blog_title}
OutlineNicknamesShort == {S_outlinecreator, S_generate_outline}
OutlineNicknames == {S_outlinecreator, S_outline, S_generate_outline}

\* "if not connections"
EmptyDirectoryIgnored(conns) == FALSE
EmptyDirectory(conns) == conns = << >>

\* "if len(connections) == 1"
SingleFallbackNever(conns) == FALSE
SingleFallback(conns) == Len(conns) = 1

resolve_agent_name(requested, task, conns) ==
    LET nick == Lower(requested)
        by_skill_title == BySkill(conns, {S_title})
        by_skill_outline == BySkill(conns, {S_outline})
        t == Lower(task)
    IN  IF EmptyDirectory(conns) THEN <<None, "no-remote-agents">>
        ELSE IF requested # << >> /\ ExactMatches(requested, conns) # << >>
             THEN <<ExactMatches(requested, conns)[1], "exact">>
        ELSE IF nick \in TitleNicknames /\ by_skill_title # << >>
             THEN <<by_skill_title[1], "nickname:title">>
        ELSE IF nick \in OutlineNicknames /\ by_skill_outline # << >>
             THEN <<by_skill_outline[1], "nickname:outline">>
        ELSE IF (Contains(t, S_title) \/ Contains(t, S_headline)) /\ by_skill_title # << >>
             THEN <<by_skill_title[1], "heuristic:title">>
        ELSE IF Contains(t, S_outline) /\ by_skill_outline # << >>
             THEN <<by_skill_outline[1], "heuristic:outline">>
        ELSE IF SingleFallback(conns) THEN <<conns[1].name, "single">>
        ELSE <<None, "unresolved">>

\* ------------------------------------------------------ agent runtime
\* the statuses the drivers name, and one they do not: the runtime reports
\* "cancelling" while a cancellation is under way
Statuses == {"queued", "in_progress", "requires_action", "completed",
             "failed", "cancelled", "expired", "cancelling"}

\* ids of the tool calls of a round: the runtime numbers its rounds, and may
\* report a round again
Rounds == {0, 1}

WithIds(n, calls) ==
    [i \in 1..Len(calls) |->
        [id |-> <<n, i>>, name |-> calls[i].name, arguments |-> calls[i].arguments]]

\* the round number of a run that was read in requires_action
RoundOf(r) == r.tool_calls[1].id[1]

\* what runs.get can return to a driver whose tool calls are of the given
\* kinds, after it returned prev: requires_action comes with one or more
\* tool calls, and two reads in a row that return requires_action show the
\* same calls again or calls with new ids
ReportedRuns(kinds, prev) ==
    {[status |-> s, tool_calls |-> << >>] : s \in Statuses \ {"requires_action"}}
    \cup {r \in {[status |-> "requires_action", tool_calls |-> WithIds(n, b)] :
                     n \in Rounds, b \in SeqsUpTo(kinds, MaxCalls)} :
              prev.status = "requires_action" =>
                  (RoundOf(r) # RoundOf(prev) \/ r.tool_calls = prev.tool_calls)}

\* a status read shows the calls of the round before again, although that
\* round was answered
Repeats(prev, answered, r) ==
    /\ r.status = "requires_action" /\ prev.status = "requires_action"
    /\ answered > 0
    /\ r.tool_calls = prev.tool_calls

NoRun == [status |-> "none", tool_calls |-> << >>]

\* thread messages: role, and the text items of the message
UserMessage == [role |-> "user", text_messages |-> <<"question">>]
AgentMessages ==
    {[role |-> "assistant", text_messages |-> <<"a1">>],
     [role |-> "assistant", text_messages |-> <<"b1", "b2">>],
     [role |-> "assistant", text_messages |-> << >>]}

\* the threads a run can leave behind, oldest message first
Threads == {<<UserMessage>> \o t : t \in SeqsUpTo(AgentMessages, MaxMessages) \cup {<< >>}}

\* messages.list(thread_id, order): the service lists newest first unless
\* asked for ascending order
ListMessages(th, order) == IF order = "asc" THEN th ELSE Reverse(th)

IsAgentText(m) == m.role = "assistant" /\ m.text_messages # << >>

LastText(m) == m.text_messages[Len(m.text_messages)]

NoOutcome == [kind |-> "none", text |-> "", status |-> ""]

ToolOutput(tc, out) == [tool_call_id |-> tc.id, output |-> out]

\* json.dumps of an object
Dumps(obj) == <<"json", obj>>

\* one call of an executor (send_to_remote, call_tool, a local handler) made
\* for the tool call tc
Invocation(tc, target, args) == [id |-> tc.id, target |-> target, args |-> args]

\* ------------------------------------- a2a_orchestrator.run_orchestrator
OrchArguments ==
    {[valid |-> FALSE, agent_name |-> << >>, task |-> << >>],
     [valid |-> TRUE, agent_name |-> <<" ", "x", " ">>, task |-> << >>],
     [valid |-> TRUE, agent_name |-> <<"t","a">>,
      task |-> <<"A","n"," ","O","u","t","l","i","n","e">>]}

OrchCallKinds ==
    {[name |-> "delegate_to_agent", arguments |-> a] : a \in OrchArguments}
    \cup {[name |-> "other_function",
           arguments |-> [valid |-> TRUE, agent_name |-> << >>, task |-> << >>]]}

\* what send_to_remote does: a reply, a reply with an error field, an exception
RemoteReplies == {"ok", "error", "raise"}

\* runs.get and the classification of run.status
OrchPoll ==
    /\ driver = "orchestrator" /\ pc = "poll"
    /\ \E r \in ReportedRuns(OrchCallKinds, run) :
          /\ run' = r
          /\ repeated' = Repeats(run, submits, r)
          /\ onlyInProgress' = (onlyInProgress /\ r.status = "in_progress")
          /\ pc' = IF r.status \in {"queued", "in_progress"} THEN "poll"
                   ELSE IF r.status = "requires_action" THEN "round"
                   ELSE "fetch"
          /\ idx' = IF r.status = "requires_action" THEN 1 ELSE 0
    /\ outputs' = << >> /\ submits' = 0 /\ lastSubmit' = << >> /\ invoked' = << >>
    /\ received' = << >>
    /\ UNCHANGED <<agentVars, executorVars, addressVars, resolverVars, driver, discoveryVars, iteration, finalRead, thread, outcome,
                   everSubmitted>>

\* what one pass of "for tc in tool_calls" appends, given the remote's reply
OrchOutput(tc, conns, reply) ==
    IF tc.name = "delegate_to_agent"
    THEN LET requested == Strip(tc.arguments.agent_name)
             task == tc.arguments.task
             res == resolve_agent_name(requested, task, conns)
         IN  IF ~Truthy(res[1])
             THEN ToolOutput(tc, Dumps([error |-> "Unknown agent",
                                        requested |-> requested,
                                        known |-> Keys(conns)]))
             ELSE IF reply = "raise"
             THEN ToolOutput(tc, Dumps([error |-> "exception"]))
             ELSE ToolOutput(tc, Dumps([agent |-> res[1], result |-> reply]))
    ELSE ToolOutput(tc, Dumps([error |-> "Unknown function"]))

\* json.loads(tc.function.arguments or "{}") of a delegate_to_agent call
\* stands outside every try block
OrchCallRaises(tc) == tc.name = "delegate_to_agent" /\ ~tc.arguments.valid

\* resolve_agent_name(requested, task, connections) as the loop calls it
OrchResolved(tc, conns) ==
    resolve_agent_name(Strip(tc.arguments.agent_name), tc.arguments.task, conns)

\* "conn = connections[agent_name]": send_to_remote reads the entry and leaves
\* the dict as it is
ConnectionsAfterSendPopped(conns, name) == SelectSeq(conns, LAMBDA e : e.name # name)
ConnectionsAfterSend(conns, name) == conns

\* send_to_remote is reached only past "if not resolved: ... continue"
OrchSendsUnresolved(tc, conns) == tc.name = "delegate_to_agent"
OrchSends(tc, conns) ==
    tc.name = "delegate_to_agent" /\ Truthy(OrchResolved(tc, conns)[1])

\* one pass of "for tc in tool_calls"
OrchCall ==
    /\ driver = "orchestrator" /\ pc = "round" /\ idx <= Len(run.tool_calls)
    /\ LET tc == run.tool_calls[idx]
       IN  IF OrchCallRaises(tc)
           THEN /\ pc' = "raised"
                /\ UNCHANGED <<idx, outputs, invoked, received, connections>>
           ELSE /\ \E reply \in RemoteReplies :
                      /\ outputs' = Append(outputs, OrchOutput(tc, connections, reply))
                      /\ received' = IF OrchSends(tc, connections)
                                      THEN Append(received, reply)
                                      ELSE received
                /\ invoked' = IF OrchSends(tc, connections)
                               THEN Append(invoked,
                                        Invocation(tc, OrchResolved(tc, connections)[1],
                                                   tc.arguments.task))
                               ELSE invoked
                /\ connections' = IF OrchSends(tc, connections)
                                   THEN ConnectionsAfterSend(connections,
                                            OrchResolved(tc, connections)[1])
                                   ELSE connections
                /\ idx' = idx + 1
                /\ pc' = pc
    /\ UNCHANGED <<agentVars, executorVars, addressVars, resolverVars, repeated, driver, urls, di, failures, fetched, run, submits, lastSubmit, iteration,
                   finalRead, thread, outcome, onlyInProgress, everSubmitted>>

\* runs.submit_tool_outputs(tool_outputs=outputs), sleep, continue
OrchSubmit ==
    /\ driver = "orchestrator" /\ pc = "round" /\ idx > Len(run.tool_calls)
    /\ lastSubmit' = outputs /\ submits' = submits + 1 /\ everSubmitted' = TRUE
    /\ pc' = "poll"
    /\ UNCHANGED <<agentVars, executorVars, addressVars, resolverVars, invoked, received, repeated, driver, discoveryVars, run, idx, outputs, iteration,
                   finalRead, thread, outcome, onlyInProgress>>

\* "Show last assistant response": the first agent message with text of the
\* listing in descending order
OrchShown(th) ==
    LET msgs == SelectSeq(ListMessages(th, "desc"), IsAgentText)
    IN  IF msgs # << >>
        THEN [kind |-> "printed", text |-> LastText(msgs[1]), status |-> ""]
        ELSE [kind |-> "printed-nothing", text |-> "", status |-> ""]

\* after the break: list the messages, print, delete the agent
OrchFinish ==
    /\ driver = "orchestrator" /\ pc = "fetch"
    /\ \E th \in Threads : thread' = th /\ outcome' = OrchShown(th)
    /\ pc' = "done"
    /\ agent' = "deleted" /\ deletions' = deletions + 1
    /\ UNCHANGED <<pending, result, executorVars, addressVars, resolverVars, invoked, received, repeated, driver, discoveryVars, run, idx, outputs, submits, lastSubmit,
                   iteration, finalRead, onlyInProgress, everSubmitted>>

\* ---------------------------------------------------- MCP tool session
\* tool calls of the MCP drivers: the argument text parses as JSON or not
McpCallKinds ==
    {[name |-> "search", arguments |-> [valid |-> v, agent_name |-> << >>, task |-> << >>]] :
        v \in BOOLEAN}

TextContent(t) == [type |-> "text", text |-> t]
ImageContent == [type |-> "image", text |-> << >>]

\* result.content values call_tool can deliver
ToolContents ==
    {<< >>,
     <<ImageContent>>,
     <<ImageContent, TextContent(<<"a">>)>>,
     <<TextContent(<<"a"," ">>), TextContent(<<"b","\n">>)>>}

\* call_tool raises, or returns a result with content
ToolResults == {[raises |-> TRUE, content |-> << >>]}
               \cup {[raises |-> FALSE, content |-> c] : c \in ToolContents}

\* the text of the TextContent segments, in order
TextParts(content) ==
    LET texts == SelectSeq(content, LAMBDA c : c.type = "text")
    IN  [i \in 1..Len(texts) |-> texts[i].text]

\* ----------------------------------------- mcp_bridge_example.main_async
BridgePoll ==
    /\ driver = "bridge" /\ pc = "poll"
    /\ \E r \in ReportedRuns(McpCallKinds, run) :
          /\ run' = r
          /\ repeated' = Repeats(run, submits, r)
          /\ onlyInProgress' = (onlyInProgress /\ r.status = "in_progress")
          /\ pc' = IF r.status \in {"queued", "in_progress"} THEN "poll"
                   ELSE IF r.status = "requires_action" THEN "round"
                   ELSE "fetch"
          /\ idx' = IF r.status = "requires_action" THEN 1 ELSE 0
    /\ outputs' = << >> /\ submits' = 0 /\ lastSubmit' = << >> /\ invoked' = << >>
    /\ received' = << >>
    /\ UNCHANGED <<agentVars, executorVars, addressVars, resolverVars, driver, discoveryVars, iteration, finalRead, thread, outcome,
                   everSubmitted>>

\* "\n".join(text_parts).strip()
BridgeOutputText(content) == Strip(Join(<<"\n">>, TextParts(content)))

\* json.loads and call_tool stand outside every try block
BridgeCallRaises(tc, res) == ~tc.arguments.valid \/ res.raises

\* one pass of "for tc in calls"
BridgeCall ==
    /\ driver = "bridge" /\ pc = "round" /\ idx <= Len(run.tool_calls)
    /\ LET tc == run.tool_calls[idx]
       IN  \E res \in ToolResults :
              /\ invoked' = IF tc.arguments.valid
                             THEN Append(invoked, Invocation(tc, tc.name, "args"))
                             ELSE invoked
              /\ received' = IF tc.arguments.valid THEN Append(received, res)
                              ELSE received
              /\ IF BridgeCallRaises(tc, res)
                 THEN /\ pc' = "raised"
                      /\ UNCHANGED <<idx, outputs>>
                 ELSE /\ outputs' = Append(outputs,
                                         ToolOutput(tc, BridgeOutputText(res.content)))
                      /\ idx' = idx + 1
                      /\ pc' = pc
    /\ UNCHANGED <<agentVars, executorVars, addressVars, resolverVars, repeated, driver, discoveryVars, run, submits, lastSubmit, iteration,
                   finalRead, thread, outcome, onlyInProgress, everSubmitted>>

BridgeSubmit ==
    /\ driver = "bridge" /\ pc = "round" /\ idx > Len(run.tool_calls)
    /\ lastSubmit' = outputs /\ submits' = submits + 1 /\ everSubmitted' = TRUE
    /\ pc' = "poll"
    /\ UNCHANGED <<agentVars, executorVars, addressVars, resolverVars, invoked, received, repeated, driver, discoveryVars, run, idx, outputs, iteration,
                   finalRead, thread, outcome, onlyInProgress>>

\* assistant_msgs[-1].text_messages[-1].text.value of the default listing
LastOfListing(th) ==
    LET msgs == SelectSeq(ListMessages(th, "default"), IsAgentText)
    IN  LastText(msgs[Len(msgs)])

HasAgentText(th) == \E i \in 1..Len(th) : IsAgentText(th[i])

BridgeShown(th) ==
    IF HasAgentText(th)
    THEN [kind |-> "printed", text |-> LastOfListing(th), status |-> ""]
    ELSE [kind |-> "printed-nothing", text |-> "", status |-> ""]

\* after the break: list the messages, print, delete the agent
BridgeFinish ==
    /\ driver = "bridge" /\ pc = "fetch"
    /\ \E th \in Threads : thread' = th /\ outcome' = BridgeShown(th)
    /\ pc' = "done"
    /\ UNCHANGED <<agentVars, executorVars, addressVars, resolverVars, invoked, received, repeated, driver, discoveryVars, run, idx, outputs, submits, lastSubmit,
                   iteration, finalRead, onlyInProgress, everSubmitted>>

\* -------------------------- mslearn_mcp_client.MSLearnMCPClient
S_no_result == <<"no-result-text">>
S_tool_error == <<"tool-error-text">>

\* while iteration < max_iterations
LoopGuardOffByOne(it) == it <= max_iterations
LoopGuard(it) == it < max_iterations

\* _execute_mcp_tool: everything inside one try, the except returns the text
\* of the error
_execute_mcp_tool(tc, res) ==
    IF ~tc.arguments.valid \/ res.raises THEN S_tool_error
    ELSE IF TextParts(res.content) # << >>
         THEN Join(<<"\n">>, TextParts(res.content))
         ELSE S_no_result

\* one loop pass up to the classification of run.status
MslPoll ==
    /\ driver = "mslearn" /\ pc = "poll" /\ LoopGuard(iteration)
    /\ iteration' = iteration + 1
    /\ \E r \in ReportedRuns(McpCallKinds, run) :
          /\ run' = r
          /\ repeated' = Repeats(run, submits, r)
          /\ onlyInProgress' = (onlyInProgress /\ r.status = "in_progress")
          /\ pc' = IF r.status \in {"queued", "in_progress"} THEN "poll"
                   ELSE IF r.status = "requires_action" THEN "round"
                   ELSE IF r.status = "completed" THEN "fetch"
                   ELSE "done"
          /\ idx' = IF r.status = "requires_action" THEN 1 ELSE 0
          /\ outcome' = IF r.status \notin {"queued", "in_progress",
                                            "requires_action", "completed"}
                        THEN [kind |-> "run-failed", text |-> "", status |-> r.status]
                        ELSE outcome
    /\ outputs' = << >> /\ submits' = 0 /\ lastSubmit' = << >> /\ invoked' = << >>
    /\ received' = << >>
    /\ UNCHANGED <<agentVars, executorVars, addressVars, resolverVars, driver, discoveryVars, finalRead, thread, everSubmitted>>

\* one pass of "for i, tool_call in enumerate(tool_calls, 1)"
MslCall ==
    /\ driver = "mslearn" /\ pc = "round" /\ idx <= Len(run.tool_calls)
    /\ LET tc == run.tool_calls[idx]
       IN  /\ \E res \in ToolResults :
                 /\ outputs' = Append(outputs, ToolOutput(tc, _execute_mcp_tool(tc, res)))
                 /\ received' = IF tc.arguments.valid THEN Append(received, res)
                                 ELSE received
           /\ invoked' = IF tc.arguments.valid
                          THEN Append(invoked, Invocation(tc, tc.name, "args"))
                          ELSE invoked
    /\ idx' = idx + 1
    /\ UNCHANGED <<agentVars, executorVars, addressVars, resolverVars, repeated, driver, pc, discoveryVars, run, submits, lastSubmit, iteration,
                   finalRead, thread, outcome, onlyInProgress, everSubmitted>>

MslSubmit ==
    /\ driver = "mslearn" /\ pc = "round" /\ idx > Len(run.tool_calls)
    /\ lastSubmit' = outputs /\ submits' = submits + 1 /\ everSubmitted' = TRUE
    /\ pc' = "poll"
    /\ UNCHANGED <<agentVars, executorVars, addressVars, resolverVars, invoked, received, repeated, driver, discoveryVars, run, idx, outputs, iteration,
                   finalRead, thread, outcome, onlyInProgress>>

\* the completed branch inside the loop
MslCompleted ==
    /\ driver = "mslearn" /\ pc = "fetch"
    /\ \E th \in Threads :
          /\ thread' = th
          /\ outcome' = IF HasAgentText(th)
                        THEN [kind |-> "answer", text |-> LastOfListing(th), status |-> ""]
                        ELSE [kind |-> "no-response", text |-> "", status |-> ""]
    /\ pc' = "done"
    /\ UNCHANGED <<agentVars, executorVars, addressVars, resolverVars, invoked, received, repeated, driver, discoveryVars, run, idx, outputs, submits, lastSubmit,
                   iteration, finalRead, onlyInProgress, everSubmitted>>

\* after the loop: final_run = runs.get(...)
MslFinalRead ==
    /\ driver = "mslearn" /\ pc = "poll" /\ ~LoopGuard(iteration)
    /\ \E r \in ReportedRuns(McpCallKinds, run) :
          /\ run' = r
          /\ onlyInProgress' = (onlyInProgress /\ r.status = "in_progress")
    /\ finalRead' = TRUE
    /\ pc' = "final"
    /\ idx' = 0 /\ outputs' = << >> /\ submits' = 0 /\ lastSubmit' = << >>
    /\ invoked' = << >> /\ received' = << >> /\ repeated' = FALSE
    /\ UNCHANGED <<agentVars, executorVars, addressVars, resolverVars, driver, discoveryVars, iteration, thread, outcome, everSubmitted>>

Exhausted(status) == [kind |-> "exhausted", text |-> "", status |-> status]

\* after the loop: the answer if the last status is completed and there is
\* one, else the text of the exceeded budget with the last status
MslFinalReturn ==
    /\ driver = "mslearn" /\ pc = "final"
    /\ IF run.status = "completed"
       THEN \E th \in Threads :
               /\ thread' = th
               /\ outcome' = IF HasAgentText(th)
                             THEN [kind |-> "answer", text |-> LastOfListing(th), status |-> ""]
                             ELSE Exhausted(run.status)
       ELSE /\ outcome' = Exhausted(run.status)
            /\ thread' = thread
    /\ pc' = "done"
    /\ UNCHANGED <<agentVars, executorVars, addressVars, resolverVars, invoked, received, repeated, driver, discoveryVars, run, idx, outputs, submits, lastSubmit,
                   iteration, finalRead, onlyInProgress, everSubmitted>>

\* ------------------------------------- MSLearnMCPClient.connect_and_run
NoResult == [kind |-> "none", value |-> NoOutcome]

\* "return response" of the inner try block
Response(out) == [kind |-> "response", value |-> out]

\* the except clause of the outer try block: the text of the error
ErrorText == [kind |-> "error", value |-> NoOutcome]

\* how far the part before _handle_tool_calls gets: the MCP session or
\* create_agent fails, or the agent is created and the thread, the message
\* or the run is not, or the run is started
Starts == {"no-agent", "no-run", "started"}

MslConnect ==
    /\ driver = "mslearn" /\ pc = "connect"
    /\ \E st \in Starts :
          /\ agent' = IF st = "no-agent" THEN "none" ELSE "created"
          /\ pending' = (st = "no-run")
          /\ result' = IF st = "no-agent" THEN ErrorText ELSE result
          /\ pc' = CASE st = "no-agent" -> "returned"
                      [] st = "no-run" -> "cleanup"
                      [] st = "started" -> "poll"
    /\ UNCHANGED <<deletions, executorVars, addressVars, resolverVars, invoked, received, repeated, driver,
                   discoveryVars, run, idx, outputs, submits, lastSubmit,
                   iteration, finalRead, thread, outcome, onlyInProgress,
                   everSubmitted>>

\* a call on the agents client made by _handle_tool_calls raises: runs.get,
\* submit_tool_outputs or messages.list
MslClientRaises ==
    /\ driver = "mslearn"
    /\ \/ pc \in {"poll", "fetch"}
       \/ pc = "round" /\ idx > Len(run.tool_calls)
       \/ pc = "final" /\ run.status = "completed"
    /\ iteration' = IF pc = "poll" /\ LoopGuard(iteration) THEN iteration + 1
                     ELSE iteration
    /\ finalRead' = IF pc = "poll" /\ ~LoopGuard(iteration) THEN TRUE
                     ELSE finalRead
    /\ onlyInProgress' = IF pc = "poll" THEN FALSE ELSE onlyInProgress
    /\ pending' = TRUE
    /\ pc' = "cleanup"
    /\ UNCHANGED <<agent, deletions, result, executorVars, addressVars, resolverVars, invoked, received,
                   repeated, driver, discoveryVars, run, idx, outputs, submits,
                   lastSubmit, thread, outcome, everSubmitted>>

\* the finally clause runs delete_agent when the inner try block is left by
\* an exception, as it does when it is left by return
DeleteAttemptsOnReturnOnly(n, raising) == IF raising THEN n ELSE n + 1
DeleteAttempts(n, raising) == n + 1

\* what delete_agent does: it deletes the agent or it raises
Deletes == {"deleted", "raises"}

\* the finally clause, then the return of the response or, for an exception,
\* of the error text by the outer except clause; an exception of
\* delete_agent is dropped
MslCleanup ==
    /\ driver = "mslearn" /\ pc \in {"done", "cleanup"}
    /\ deletions' = DeleteAttempts(deletions, pending)
    /\ \E d \in Deletes :
          agent' = IF deletions' > deletions /\ d = "deleted" THEN "deleted" ELSE agent
    /\ result' = IF pending THEN ErrorText ELSE Response(outcome)
    /\ pending' = FALSE
    /\ pc' = "returned"
    /\ UNCHANGED <<executorVars, addressVars, resolverVars, invoked, received, repeated, driver,
                   discoveryVars, run, idx, outputs, submits, lastSubmit,
                   iteration, finalRead, thread, outcome, onlyInProgress,
                   everSubmitted>>

\* ------------------------------------ single_agent.run_agent_with_tools
ToolMap == {"geocode_city_country", "get_weather_summary"}

SingleCallKinds ==
    {[name |-> n, arguments |-> [valid |-> v, agent_name |-> << >>, task |-> << >>]] :
        n \in {"get_weather_summary", "unknown_tool"}, v \in BOOLEAN}

\* what impl(**args) does: it returns its text or it raises
HandlerResults == {"returns", "raises"}

SinglePoll ==
    /\ driver = "single" /\ pc = "poll"
    /\ \E r \in ReportedRuns(SingleCallKinds, run) :
          /\ run' = r
          /\ repeated' = Repeats(run, submits, r)
          /\ onlyInProgress' = (onlyInProgress /\ r.status = "in_progress")
          /\ pc' = IF r.status \in {"failed", "completed", "cancelled", "expired"}
                   THEN "done"
                   ELSE IF r.status = "requires_action" THEN "round"
                   ELSE "poll"
          /\ idx' = IF r.status = "requires_action" THEN 1 ELSE 0
          /\ outcome' = IF r.status \in {"failed", "completed", "cancelled", "expired"}
                        THEN [kind |-> "run", text |-> "", status |-> r.status]
                        ELSE outcome
    /\ outputs' = << >> /\ submits' = 0 /\ lastSubmit' = << >> /\ invoked' = << >>
    /\ received' = << >>
    /\ UNCHANGED <<agentVars, executorVars, addressVars, resolverVars, driver, discoveryVars, iteration, finalRead, thread, everSubmitted>>

\* a function the driver does not know gets an error output
SingleUnknownDropped(outs, tc) == outs
SingleUnknownFirst(outs, tc) ==
    <<ToolOutput(tc, Dumps([error |-> "function not implemented"]))>> \o outs
SingleUnknown(outs, tc) ==
    Append(outs, ToolOutput(tc, Dumps([error |-> "function not implemented"])))

\* the keyword arguments of the call: "try: args = json.loads(...) except
\* json.JSONDecodeError: args = {}", as the set of the keys passed
SingleArgsParsedAnyway(tc) == {"lat", "lon"}
SingleArgs(tc) == IF tc.arguments.valid THEN {"lat", "lon"} ELSE {}

\* malformed JSON gives args = {}, and the handlers have required parameters:
\* impl(**{}) raises TypeError, which the except turns into an error output
SingleResult(tc, h) ==
    IF ~tc.arguments.valid \/ h = "raises"
    THEN Dumps([error |-> "exception"])
    ELSE <<"result-text">>

\* one pass of "for tc in tool_calls"
SingleCall ==
    /\ driver = "single" /\ pc = "round" /\ idx <= Len(run.tool_calls)
    /\ LET tc == run.tool_calls[idx]
       IN  IF tc.name \in ToolMap
           THEN /\ \E h \in HandlerResults :
                      /\ outputs' = Append(outputs, ToolOutput(tc, SingleResult(tc, h)))
                      /\ received' = Append(received,
                                            IF tc.arguments.valid THEN h ELSE "raises")
                /\ invoked' = Append(invoked, Invocation(tc, tc.name, SingleArgs(tc)))
           ELSE /\ outputs' = SingleUnknown(outputs, tc)
                /\ invoked' = invoked /\ received' = received
    /\ idx' = idx + 1
    /\ UNCHANGED <<agentVars, executorVars, addressVars, resolverVars, repeated, driver, pc, discoveryVars, run, submits, lastSubmit, iteration,
                   finalRead, thread, outcome, onlyInProgress, everSubmitted>>

\* "if outputs:" guards the submission
SingleSubmitsNever(outs) == FALSE
SingleSubmits(outs) == outs # << >>

\* end of the round: submit the batch if there is one, sleep, loop
SingleSubmit ==
    /\ driver = "single" /\ pc = "round" /\ idx > Len(run.tool_calls)
    /\ IF SingleSubmits(outputs)
       THEN lastSubmit' = outputs /\ submits' = submits + 1 /\ everSubmitted' = TRUE
       ELSE UNCHANGED <<lastSubmit, submits, everSubmitted>>
    /\ pc' = "poll"
    /\ UNCHANGED <<agentVars, executorVars, addressVars, resolverVars, invoked, received, repeated, driver, discoveryVars, run, idx, outputs, iteration,
                   finalRead, thread, outcome, onlyInProgress>>

\* ------------------------------------ resolve_agent_name called on its own
\* provider names: one of the sample servers in both letter cases, and two
\* that read like the nicknames
N_BlogTitleGenerator ==
    <<"B","l","o","g","T","i","t","l","e","G","e","n","e","r","a","t","o","r">>
N_Outline == <<"O","u","t","l","i","n","e">>
N_ta == <<"t","a">>
ProviderNames == {N_TA, N_ta, N_BlogTitleGenerator, N_Outline}

\* a skill whose tags, and nothing else, carry the keyword title
SkillTagTitle == [id |-> <<"s","0">>, name |-> <<"T","L">>, tags |-> <<S_title>>]

\* card.skills: none, one skill, a title and an outline skill
SkillLists ==
    {<< >>, <<SkillTitle>>, <<SkillTagTitle>>, <<SkillOutline>>,
     <<SkillTagTitle, SkillOutline>>}

ProviderCards == [name : ProviderNames, skills : SkillLists]

\* a dict[str, RemoteAgentConnection]: entries in insertion order, keys
\* distinct
Directories ==
    {<< >>} \cup
    {[i \in 1..Len(cs) |-> RemoteAgentConnection(cs[i], i)] :
        cs \in {c \in SeqsUpTo(ProviderCards, MaxProviders) :
                  \A i, j \in 1..Len(c) : c[i].name = c[j].name => i = j}}

\* the agent_name of a call, stripped
RequestedNames ==
    {<< >>, S_blogtitlegenerator, S_outline, <<"T","i","t","l","e">>,
     <<"t","a">>, <<"x">>}

T_give_me_an_outline ==
    <<"g","i","v","e"," ","m","e"," ","a","n"," ",
      "o","u","t","l","i","n","e"," ","f","o","r"," ","X">>
T_headline == <<"A"," ","H","e","a","d","l","i","n","e">>
T_title_and_outline ==
    <<"t","i","t","l","e"," ","a","n","d"," ","o","u","t","l","i","n","e">>
Tasks == {<< >>, T_give_me_an_outline, T_headline, T_title_and_outline}

NoResolution == <<None, "not-called">>

\* one call resolve_agent_name(requested, task, connections)
Resolve ==
    /\ driver = "resolver" /\ pc = "resolve"
    /\ resolution' = resolve_agent_name(reqName, reqTask, directory)
    /\ pc' = "done"
    /\ UNCHANGED <<agentVars, executorVars, addressVars, directory, reqName, reqTask, invoked, received, repeated, driver,
                   discoveryVars, run, idx, outputs, submits, lastSubmit,
                   iteration, finalRead, thread, outcome, onlyInProgress,
                   everSubmitted>>

\* ---------------------------------- get_remote_addresses called on its own
\* str.split(",")
RECURSIVE Split(_)
Split(s) ==
    IF \A i \in 1..Len(s) : s[i] # ","
    THEN <<s>>
    ELSE LET i == CHOOSE k \in 1..Len(s) :
                     s[k] = "," /\ \A h \in 1..(k - 1) : s[h] # ","
         IN  <<SubSeq(s, 1, i - 1)>> \o Split(SubSeq(s, i + 1, Len(s)))

\* [u.strip() for u in urls_csv.split(",") if u.strip()] if urls_csv else []
CsvUrls(value) ==
    LET urls_csv == Strip(value)
        items == IF urls_csv # << >> THEN Split(urls_csv) ELSE << >>
        kept == SelectSeq(items, LAMBDA u : Strip(u) # << >>)
    IN  [i \in 1..Len(kept) |-> Strip(kept[i])]

\* "val = os.environ.get(key); if val: urls.append(val.strip())"
SlotUrls(val) == IF Truthy(val) THEN <<Strip(val)>> ELSE << >>

\* the list urls before the de-duplication
ConfiguredUrls(env) ==
    CsvUrls(env.REMOTE_AGENT_URLS) \o SlotUrls(env.TITLE_AGENT_URL)
        \o SlotUrls(env.OUTLINE_AGENT_URL)

\* "for u in urls: if u not in seen: uniq.append(u); seen.add(u)": seen holds
\* the addresses before u, so u is kept where it occurs first
UniqKeepsLast(us) ==
    LET at == [k \in 1..Len(us) |-> <<k, us[k]>>]
        kept == SelectSeq(at, LAMBDA p : \A h \in (p[1] + 1)..Len(us) : us[h] # p[2])
    IN  [i \in 1..Len(kept) |-> kept[i][2]]
Uniq(us) ==
    LET at == [k \in 1..Len(us) |-> <<k, us[k]>>]
        kept == SelectSeq(at, LAMBDA p : \A h \in 1..(p[1] - 1) : us[h] # p[2])
    IN  [i \in 1..Len(kept) |-> kept[i][2]]

get_remote_addresses(env) == Uniq(ConfiguredUrls(env))

\* what stands between two commas of REMOTE_AGENT_URLS
CsvItems == {<<"a">>, <<" ","b">>, <<"a"," ">>, << >>}

\* the values of REMOTE_AGENT_URLS: unset reads as "", else items with commas
CsvValues ==
    {<< >>} \cup {Join(<<",">>, items) : items \in SeqsUpTo(CsvItems, MaxCsvItems)}

\* the values of TITLE_AGENT_URL and OUTLINE_AGENT_URL; None when unset
SlotValues == {None, << >>, <<" ">>, <<"a">>, <<" ","c">>}

Environs ==
    [REMOTE_AGENT_URLS : CsvValues, TITLE_AGENT_URL : SlotValues,
     OUTLINE_AGENT_URL : SlotValues]

NoEnviron ==
    [REMOTE_AGENT_URLS |-> << >>, TITLE_AGENT_URL |-> None, OUTLINE_AGENT_URL |-> None]

\* one call get_remote_addresses()
GetRemoteAddresses ==
    /\ driver = "addresses" /\ pc = "addresses"
    /\ addresses' = get_remote_addresses(environ)
    /\ pc' = "done"
    /\ UNCHANGED <<agentVars, executorVars, environ, resolverVars, invoked, received, repeated, driver,
                   discoveryVars, run, idx, outputs, submits, lastSubmit,
                   iteration, finalRead, thread, outcome, onlyInProgress,
                   everSubmitted>>

\* ------------- a2a_servers: TitleAgentExecutor and its TitleAgent
\* (OutlineAgentExecutor is the same code over OutlineAgent)
\* a message part with a text attribute, and one without (a file part):
\* getattr(p, "text", None) gives None for it
TextPart(t) == [text |-> t]
FilePart == [text |-> None]

\* the message parts of a request
PartLists ==
    {<< >>,
     <<FilePart>>,
     <<TextPart(<< >>)>>,
     <<TextPart(<<" ">>), TextPart(<<" ">>)>>,
     <<FilePart, TextPart(<<" ">>), TextPart(<<"a">>)>>}

\* "[p.text for p in message_parts if getattr(p, "text", None)]"
text_inputs(parts) ==
    LET kept == SelectSeq(parts, LAMBDA p : Truthy(p.text))
    IN  [i \in 1..Len(kept) |-> kept[i].text]

\* ""\n".join(text_inputs) if text_inputs else """
user_text(parts) ==
    IF text_inputs(parts) # << >> THEN Join(<<"\n">>, text_inputs(parts)) ELSE << >>

\* "if not user_text.strip()"
NoInputUnstripped(parts) == user_text(parts) = << >>
NoInput(parts) == Strip(user_text(parts)) = << >>

\* the texts of the task updates
M_no_input == "No input text provided to Title Agent."
M_processing == "Title Agent is processing your request..."
M_task_completed == "Task completed."
M_run_failed == "Run failed"

\* task_updater.update_status(TaskState.working, message) and
\* task_updater.complete(message), as events on the task
Working(text) == [state |-> "working", text |-> text]
Completed(text) == [state |-> "completed", text |-> text]

\* self._foundry_agent before the first request that has text
NoFoundryAgent == [object |-> FALSE, agent |-> "none"]

\* TitleAgent.create_agent: client.create_agent unless self.agent is set; the
\* call gives the agent or raises
Creations == {"created", "raises"}
create_agent(fa, c) ==
    IF fa.agent # "none" THEN fa
    ELSE [fa EXCEPT !.agent = IF c = "created" THEN "created" ELSE "none"]

\* what the conversation of run_conversation meets: a call on the client
\* raises, the run ends as failed, or the run ends otherwise and leaves a
\* thread
Conversations ==
    {[ends |-> e, thread |-> << >>] : e \in {"raises", "failed"}}
    \cup {[ends |-> "processed", thread |-> th] : th \in Threads}

\* "for msg in messages: if msg.role == AGENT and msg.text_messages:
\* result.append(msg.text_messages[-1].text.value)", messages oldest first
AgentTexts(th) ==
    LET kept == SelectSeq(ListMessages(th, "asc"), IsAgentText)
    IN  [i \in 1..Len(kept) |-> LastText(kept[i])]

run_conversation(c) ==
    IF c.ends = "failed" THEN <<M_run_failed>> ELSE AgentTexts(c.thread)

\* a request before execute has run
NewRequest(parts) ==
    [parts |-> parts, at |-> "start", responses |-> << >>, ri |-> 0,
     events |-> << >>, ranOn |-> "not run"]

\* the next task update of "for r in responses: update_status(working, r)"
\* and, after the last, complete with the last response or "Task completed."
CompletesWith(q) ==
    IF q.responses # << >> THEN q.responses[Len(q.responses)] ELSE M_task_completed

Published(q) ==
    IF q.ri <= Len(q.responses)
    THEN [q EXCEPT !.events = Append(@, Working(q.responses[q.ri])), !.ri = @ + 1]
    ELSE [q EXCEPT !.events = Append(@, Completed(CompletesWith(q))), !.at = "done"]

\* all requests have ended
Served(reqs) == \A r \in 1..Len(reqs) : reqs[r].at \in {"done", "raised"}

\* execute up to its first task update: the request without text is
\* completed; else _get_or_create_agent, which constructs the TitleAgent
\* (its constructor raises when the environment is not configured) and calls
\* create_agent when self._foundry_agent is not set, then the working status.
\* Neither TitleAgent() nor create_agent suspends the coroutine.
ExecStart(r) ==
    /\ driver = "executor" /\ pc = "serve" /\ requests[r].at = "start"
    /\ LET q == requests[r]
       IN  IF NoInput(q.parts)
           THEN /\ requests' = [requests EXCEPT
                       ![r] = [q EXCEPT !.events = <<Completed(M_no_input)>>,
                                        !.at = "done"]]
                /\ UNCHANGED <<foundry_agent, constructed, created>>
           ELSE IF foundry_agent.object
           THEN /\ requests' = [requests EXCEPT
                       ![r] = [q EXCEPT !.events = <<Working(M_processing)>>,
                                        !.at = "run"]]
                /\ UNCHANGED <<foundry_agent, constructed, created>>
           ELSE IF ~env_set
           THEN /\ requests' = [requests EXCEPT ![r] = [q EXCEPT !.at = "raised"]]
                /\ UNCHANGED <<foundry_agent, constructed, created>>
           ELSE \E c \in Creations :
                   /\ foundry_agent' =
                          create_agent([object |-> TRUE, agent |-> "none"], c)
                   /\ constructed' = constructed + 1
                   /\ created' = created + 1
                   /\ requests' = [requests EXCEPT
                          ![r] = IF c = "raises"
                                 THEN [q EXCEPT !.at = "raised"]
                                 ELSE [q EXCEPT !.events = <<Working(M_processing)>>,
                                                !.at = "run"]]
    /\ pc' = IF Served(requests') THEN "done" ELSE "serve"
    /\ UNCHANGED <<env_set, agentVars, addressVars, resolverVars, invoked, received,
                   repeated, driver, discoveryVars, run, idx, outputs, submits,
                   lastSubmit, iteration, finalRead, thread, outcome,
                   onlyInProgress, everSubmitted>>

\* agent.run_conversation(user_text), then the first of the updates that
\* follow it; run_conversation reads self.agent.id, which raises when the
\* TitleAgent has no agent
ExecRun(r) ==
    /\ driver = "executor" /\ pc = "serve" /\ requests[r].at = "run"
    /\ LET q == [requests[r] EXCEPT !.ranOn = foundry_agent.agent]
       IN  \E c \in Conversations :
              requests' = [requests EXCEPT
                  ![r] = IF c.ends = "raises" \/ foundry_agent.agent = "none"
                         THEN [q EXCEPT !.at = "raised"]
                         ELSE Published([q EXCEPT !.responses = run_conversation(c),
                                                  !.ri = 1, !.at = "publish"])]
    /\ pc' = IF Served(requests') THEN "done" ELSE "serve"
    /\ UNCHANGED <<env_set, foundry_agent, constructed, created, agentVars,
                   addressVars, resolverVars, invoked, received,
                   repeated, driver, discoveryVars, run, idx, outputs, submits,
                   lastSubmit, iteration, finalRead, thread, outcome,
                   onlyInProgress, everSubmitted>>

\* the next update after the task updater gave control back
ExecPublish(r) ==
    /\ driver = "executor" /\ pc = "serve" /\ requests[r].at = "publish"
    /\ requests' = [requests EXCEPT ![r] = Published(requests[r])]
    /\ pc' = IF Served(requests') THEN "done" ELSE "serve"
    /\ UNCHANGED <<env_set, foundry_agent, constructed, created, agentVars,
                   addressVars, resolverVars, invoked, received,
                   repeated, driver, discoveryVars, run, idx, outputs, submits,
                   lastSubmit, iteration, finalRead, thread, outcome,
                   onlyInProgress, everSubmitted>>

\* the requests one executor handles
RequestLists == [1..MaxRequests -> {NewRequest(p) : p \in PartLists}]

\* ----------------------------------------------------------- behaviour
Drivers == {"orchestrator", "bridge", "mslearn", "single", "resolver", "addresses",
            "executor"}

\* discovery gets the de-duplicated list of get_remote_addresses: distinct
\* addresses, named here by their position in the list
UrlLists == {[i \in 1..k |-> i] : k \in 0..MaxUrls}

Init ==
    /\ driver \in Drivers
    /\ urls \in (IF driver = "orchestrator" THEN UrlLists ELSE {<< >>})
    /\ pc = IF driver = "orchestrator" THEN "discover"
            ELSE IF driver = "resolver" THEN "resolve"
            ELSE IF driver = "addresses" THEN "addresses"
            ELSE IF driver = "mslearn" THEN "connect"
            ELSE IF driver = "executor" THEN "serve"
            ELSE "poll"
    /\ di = 1
    /\ connections = << >>
    /\ failures = << >>
    /\ fetched = << >>
    /\ run = NoRun
    /\ idx = 0
    /\ outputs = << >>
    /\ submits = 0
    /\ lastSubmit = << >>
    /\ iteration = 0
    /\ finalRead = FALSE
    /\ thread = << >>
    /\ outcome = NoOutcome
    /\ onlyInProgress = TRUE
    /\ everSubmitted = FALSE
    /\ invoked = << >>
    /\ received = << >>
    /\ repeated = FALSE
    /\ directory \in (IF driver = "resolver" THEN Directories ELSE {<< >>})
    /\ reqName \in (IF driver = "resolver" THEN RequestedNames ELSE {<< >>})
    /\ reqTask \in (IF driver = "resolver" THEN Tasks ELSE {<< >>})
    /\ resolution = NoResolution
    /\ environ \in (IF driver = "addresses" THEN Environs ELSE {NoEnviron})
    /\ addresses = << >>
    /\ agent = "none"
    /\ deletions = 0
    /\ pending = FALSE
    /\ result = NoResult
    /\ env_set \in (IF driver = "executor" THEN BOOLEAN ELSE {TRUE})
    /\ foundry_agent = NoFoundryAgent
    /\ constructed = 0
    /\ created = 0
    /\ requests \in (IF driver = "executor" THEN RequestLists ELSE {<< >>})

Next ==
    \/ DiscoverNoUrls \/ DiscoverAddress \/ DiscoverReturn
    \/ OrchPoll \/ OrchCall \/ OrchSubmit \/ OrchFinish
    \/ BridgePoll \/ BridgeCall \/ BridgeSubmit \/ BridgeFinish
    \/ MslConnect \/ MslClientRaises \/ MslCleanup
    \/ MslPoll \/ MslCall \/ MslSubmit \/ MslCompleted
    \/ MslFinalRead \/ MslFinalReturn
    \/ SinglePoll \/ SingleCall \/ SingleSubmit
    \/ Resolve
    \/ GetRemoteAddresses
    \/ \E r \in 1..MaxRequests : ExecStart(r) \/ ExecRun(r) \/ ExecPublish(r)

Spec == Init /\ [][Next]_vars

\* the driver is a sequential program: it takes its next step
FairSpec == Spec /\ WF_vars(Next)

\* ================================================================ claims
CallIds(calls) == {calls[i].id : i \in 1..Len(calls)}
BatchIds(batch) == {batch[i].tool_call_id : i \in 1..Len(batch)}

\* the batch answers every call of the round once, and nothing else
WholeBatch(batch, calls) ==
    /\ Len(batch) = Len(calls)
    /\ BatchIds(batch) = CallIds(calls)

\* the text of the newest agent message that has text
NewestAgentText(th) ==
    LET msgs == SelectSeq(th, IsAgentText)
    IN  LastText(msgs[Len(msgs)])

\* C1: whenever a driver has passed a batch to submit_tool_outputs, the batch
\* holds exactly one output per tool call that the status read opening the
\* round reported: same number, same ids, none from another round.
C1_BatchMatchesRound ==
    submits > 0 => WholeBatch(lastSubmit, run.tool_calls)

\* a batch of two or more outputs has been submitted
C1_Witness == submits > 0 /\ Len(lastSubmit) >= 2

\* C2: a driver that is about to read the run status again after a read that
\* returned requires_action has made exactly one submit_tool_outputs call
\* since that read, with the whole batch; no read is followed by two submits
\* or by a partial batch.
C2_RoundAnsweredOnce ==
    /\ submits <= 1
    /\ (pc = "poll" /\ run.status = "requires_action") =>
          (submits = 1 /\ WholeBatch(lastSubmit, run.tool_calls))

\* the single-agent driver is back at its status read after a round
C2_Witness ==
    driver = "single" /\ pc = "poll" /\ run.status = "requires_action" /\ submits = 1

\* C3: no failure of a tool call escapes to the run driver: the driver is
\* never aborted by an exception, and every call of the round that has been
\* processed has an output in the batch.
C3_NoFailureEscapes ==
    /\ pc # "raised"
    /\ pc = "round" => Len(outputs) = idx - 1

\* C4: every driver eventually stops reading the run status and returns,
\* whatever statuses the run reports.
C4_EveryDriverStops == <>(pc \in {"done", "raised", "returned"})

\* connect_and_run is in _handle_tool_calls, or at its return
InHandleToolCalls == pc \in {"poll", "round", "fetch", "final", "done"}

\* C5: in _handle_tool_calls, as long as every status read has returned
\* in_progress, nothing has been submitted and the driver has not stopped
\* before the iteration cap; when it has stopped, it did so with the loop
\* counter at max_iterations and returned the exhausted outcome with status
\* in_progress.
C5_PerpetualInProgress ==
    (driver = "mslearn" /\ onlyInProgress /\ InHandleToolCalls) =>
        /\ ~everSubmitted
        /\ iteration < max_iterations => pc = "poll"
        /\ iteration <= max_iterations
        /\ pc = "done" => (iteration = max_iterations /\ finalRead
                           /\ outcome = Exhausted("in_progress"))

\* the driver has returned after a run that only ever reported in_progress
C5_Witness ==
    driver = "mslearn" /\ onlyInProgress /\ pc = "done" /\ outcome.kind = "exhausted"

\* C6: when the budget of _handle_tool_calls is exhausted and the status read
\* after the loop is completed, the driver returns the run's final (newest)
\* assistant answer.
C6_LateCompletionReturnsAnswer ==
    (driver = "mslearn" /\ pc = "done" /\ finalRead /\ run.status = "completed"
     /\ HasAgentText(thread)) =>
        outcome = [kind |-> "answer", text |-> NewestAgentText(thread), status |-> ""]

\* C7: a driver that has stopped on failed, cancelled or expired has an
\* outcome that names that status (and so differs from the outcome of a
\* completed run).
C7_TerminalFailureReported ==
    (pc = "done" /\ run.status \in {"failed", "cancelled", "expired"}) =>
        outcome.status = run.status

\* C8: a driver that has stopped on completed returns or prints the text of
\* the newest agent message of the thread.
C8_CompletedReturnsNewest ==
    (driver \in {"orchestrator", "bridge", "mslearn"} /\ pc = "done"
     /\ run.status = "completed" /\ HasAgentText(thread)) =>
        outcome.text = NewestAgentText(thread)

FetchedAddresses == [i \in 1..Len(fetched) |-> fetched[i].address]
FailedFetches == SelectSeq(fetched, LAMBDA f : f.card = FetchFailed)
GoodFetches == SelectSeq(fetched, LAMBDA f : f.card # FetchFailed)
FailedAddresses == [i \in 1..Len(FailedFetches) |-> FailedFetches[i].address]

\* discovery has returned to run_orchestrator
Discovered == driver = "orchestrator" /\ pc # "discover"

\* C9 as stated: discovery fetches every address, logs one failure per
\* failing address, and the directory has as many entries as there are
\* reachable addresses.
C9_SizeIsReachableCount ==
    Discovered =>
        /\ FetchedAddresses = urls
        /\ failures = FailedAddresses
        /\ Len(connections) = Len(GoodFetches)

\* C9 amended: discovery fetches every address whatever fails, logs one
\* failure per failing address, and the directory has one entry per distinct
\* provider name that the reachable addresses reported.
C9_DiscoveryTolerant ==
    Discovered =>
        /\ FetchedAddresses = urls
        /\ failures = FailedAddresses
        /\ Len(connections) =
              Cardinality({GoodFetches[i].card.name : i \in 1..Len(GoodFetches)})

\* discovery has returned after a failing address that was followed by a
\* reachable one
C9_Witness ==
    /\ Discovered /\ Len(fetched) >= 2
    /\ fetched[1].card = FetchFailed /\ fetched[2].card # FetchFailed
    /\ Len(connections) = 1

\* C10: every directory entry is the descriptor of the first address of the
\* input list that reported the entry's name.
C10_FirstAddressKept ==
    \A i \in 1..Len(connections) :
        \A j \in 1..Len(fetched) :
            (fetched[j].card # FetchFailed
             /\ fetched[j].card.name = connections[i].name
             /\ \A k \in 1..(j - 1) : fetched[k].card = FetchFailed
                                       \/ fetched[k].card.name # connections[i].name)
            => connections[i].url = fetched[j].address

\* ---------------------------------------------------------------- resolver
\* resolve_agent_name has returned
Resolved == driver = "resolver" /\ pc = "done"

\* the orchestrator stopped abnormally at the malformed arguments of the call
\* it was at
OrchRaisedByArguments ==
    /\ idx \in 1..Len(run.tool_calls)
    /\ OrchCallRaises(run.tool_calls[idx])

\* the orchestrator runs on an empty directory: it sends nothing, and it
\* stops abnormally only at malformed arguments
RunsOnEmptyDirectory ==
    (Discovered /\ connections = << >>) =>
        /\ invoked = << >>
        /\ pc = "raised" => OrchRaisedByArguments

C12_SingleEntryReturned ==
    (Resolved /\ Len(directory) = 1) => resolution[1] = directory[1].name

\* the resolver has returned the only entry, which has no skills, for an
\* empty requested name and an empty task text
C12_Witness ==
    /\ Resolved /\ Len(directory) = 1
    /\ directory[1].card.skills = << >>
    /\ reqName = << >> /\ reqTask = << >>
    /\ resolution = <<directory[1].name, "single">>

\* the directory holds two providers, entry i with the tag title and the
\* other with the tag outline
TitleAndOutline(i) ==
    /\ Len(directory) = 2 /\ i \in 1..2
    /\ directory[i].card.skills = <<SkillTagTitle>>
    /\ directory[3 - i].card.skills = <<SkillOutline>>

\* some provider's name is the requested name, ignoring case
NamesRequested ==
    \E i \in 1..Len(directory) : Lower(directory[i].name) = Lower(reqName)

\* C13 as stated: with a title provider and an outline provider, in either
\* order, the requested name blogtitlegenerator resolves to the title
\* provider with reason nickname:title, whatever the task text.
C13_NicknameTitle ==
    \A i \in 1..2 :
        (Resolved /\ TitleAndOutline(i) /\ reqName = S_blogtitlegenerator)
        => resolution = <<directory[i].name, "nickname:title">>

\* C13 amended: the same, provided that neither provider's own name is
\* blogtitlegenerator ignoring case; such a provider is returned instead, with
\* reason exact, whatever its skills.
C13_NicknameTitleUnlessNamed ==
    \A i \in 1..2 :
        (Resolved /\ TitleAndOutline(i) /\ reqName = S_blogtitlegenerator)
        => IF NamesRequested
           THEN /\ resolution[2] = "exact"
                /\ Lower(resolution[1]) = S_blogtitlegenerator
           ELSE resolution = <<directory[i].name, "nickname:title">>

\* the resolver has returned the title provider, the second of the two, by
\* its nickname, for a task text that names an outline
C13_Witness ==
    /\ Resolved /\ TitleAndOutline(2) /\ reqName = S_blogtitlegenerator
    /\ reqTask = T_give_me_an_outline
    /\ resolution = <<directory[2].name, "nickname:title">>

\* entry i of the directory has a skill whose id, name or tags contain kw
Offers(i, kw) ==
    \E k \in 1..Len(directory[i].card.skills) :
        Contains(SkillText(directory[i].card.skills[k]), kw)

\* the name of the first entry, in directory order, that offers kw
FirstOffering(kw) ==
    directory[CHOOSE i \in 1..Len(directory) :
                 Offers(i, kw) /\ \A j \in 1..(i - 1) : ~Offers(j, kw)].name

\* the conditions under which each rule applies, each taken alone
ExactApplies == reqName # << >> /\ NamesRequested
NickTitleApplies ==
    /\ Lower(reqName) \in {S_blogtitlegenerator, S_title, S_generate_blog_title}
    /\ \E i \in 1..Len(directory) : Offers(i, S_title)
NickOutlineApplies ==
    /\ Lower(reqName) \in {S_outlinecreator, S_outline, S_generate_outline}
    /\ \E i \in 1..Len(directory) : Offers(i, S_outline)
HeurTitleApplies ==
    /\ Contains(Lower(reqTask), S_title) \/ Contains(Lower(reqTask), S_headline)
    /\ \E i \in 1..Len(directory) : Offers(i, S_title)
HeurOutlineApplies ==
    /\ Contains(Lower(reqTask), S_outline)
    /\ \E i \in 1..Len(directory) : Offers(i, S_outline)

\* C15: on a directory that is not empty the first rule that applies, in the
\* order exact, nickname, task heuristic, single-provider fallback, decides
\* the result, title before outline within the nickname and heuristic rules;
\* when none applies the result is unresolved.
C15_FirstRuleDecides ==
    (Resolved /\ directory # << >>) =>
        IF ExactApplies
        THEN resolution[2] = "exact" /\ Lower(resolution[1]) = Lower(reqName)
        ELSE IF NickTitleApplies
        THEN resolution = <<FirstOffering(S_title), "nickname:title">>
        ELSE IF NickOutlineApplies
        THEN resolution = <<FirstOffering(S_outline), "nickname:outline">>
        ELSE IF HeurTitleApplies
        THEN resolution = <<FirstOffering(S_title), "heuristic:title">>
        ELSE IF HeurOutlineApplies
        THEN resolution = <<FirstOffering(S_outline), "heuristic:outline">>
        ELSE IF Len(directory) = 1
        THEN resolution = <<directory[1].name, "single">>
        ELSE resolution = <<None, "unresolved">>

\* the exact rule has decided where the nickname rule and both heuristic
\* rules applied too and would have returned another provider
C15_Witness ==
    /\ Resolved /\ ExactApplies /\ NickOutlineApplies
    /\ HeurTitleApplies /\ HeurOutlineApplies
    /\ resolution[2] = "exact"
    /\ resolution[1] # FirstOffering(S_outline)
    /\ resolution[1] # FirstOffering(S_title)

\* the title heuristic has decided where the outline heuristic and the
\* single-provider fallback applied too
C15_HeuristicWitness ==
    /\ Resolved /\ ~ExactApplies /\ ~NickTitleApplies /\ ~NickOutlineApplies
    /\ HeurTitleApplies /\ HeurOutlineApplies /\ Len(directory) = 1
    /\ resolution[2] = "heuristic:title"

\* the directory holds one provider, which declares the skill outline, and
\* the resolver was asked for outline with the task of the scenario
OutlineScenario ==
    /\ Resolved /\ Len(directory) = 1 /\ Offers(1, S_outline)
    /\ reqName = S_outline /\ reqTask = T_give_me_an_outline

\* C16 as stated: in the outline scenario the resolver returns the provider
\* with reason exact.
C16_OutlineResolvesExact ==
    OutlineScenario => resolution = <<directory[1].name, "exact">>

\* C16 amended: in the outline scenario the resolver returns the provider,
\* with reason nickname:outline; the reason is exact only if the provider's
\* own name is outline, ignoring case.
C16_OutlineResolvesByNickname ==
    OutlineScenario =>
        resolution = <<directory[1].name,
                       IF Lower(directory[1].name) = S_outline
                       THEN "exact" ELSE "nickname:outline">>

\* the outline scenario with a provider whose name is not outline
C16_Witness ==
    /\ OutlineScenario /\ directory[1].name = N_TA
    /\ resolution = <<N_TA, "nickname:outline">>

C18_ExecutedOnce == repeated => invoked = << >>

\* tc is a delegate_to_agent call for which resolve_agent_name returns no
\* name: unresolved, or the directory is empty
ResolutionFails(tc) ==
    /\ tc.name = "delegate_to_agent" /\ tc.arguments.valid
    /\ resolve_agent_name(Strip(tc.arguments.agent_name), tc.arguments.task,
                          connections)[1] = None

\* out is the structured error output of the call tc
UnknownAgentOutput(out, tc) ==
    /\ out.tool_call_id = tc.id
    /\ out.output[1] = "json" /\ out.output[2].error = "Unknown agent"

\* the orchestrator is at a call of the round whose resolution fails
AtFailingResolution ==
    /\ driver = "orchestrator" /\ pc = "round" /\ idx <= Len(run.tool_calls)
    /\ ResolutionFails(run.tool_calls[idx])

\* C19: at a delegate_to_agent call whose resolution fails the orchestrator
\* sends nothing, appends the error output under the call's id and goes on
\* with the next call of the round without raising; the batch it submits
\* holds that error output.
C19_ResolutionFailureIsAnOutput ==
    [][/\ AtFailingResolution =>
            /\ invoked' = invoked
            /\ Len(outputs') = Len(outputs) + 1
            /\ SubSeq(outputs', 1, Len(outputs)) = outputs
            /\ UnknownAgentOutput(outputs'[Len(outputs')], run.tool_calls[idx])
            /\ idx' = idx + 1 /\ pc' = "round"
       /\ (driver = "orchestrator" /\ submits' > submits) =>
            \A i \in 1..Len(run.tool_calls) :
                ResolutionFails(run.tool_calls[i]) =>
                    UnknownAgentOutput(lastSubmit'[i], run.tool_calls[i])]_vars

\* the orchestrator has submitted the batch of a round whose first call was
\* not resolved and whose second call was sent to a provider
C19_Witness ==
    /\ driver = "orchestrator" /\ submits = 1 /\ Len(run.tool_calls) = 2
    /\ ResolutionFails(run.tool_calls[1])
    /\ UnknownAgentOutput(lastSubmit[1], run.tool_calls[1])
    /\ Len(invoked) = 1 /\ invoked[1].id = run.tool_calls[2].id

\* run_agent_with_tools is at a call whose argument text is not valid JSON
AtMalformedArguments ==
    /\ driver = "single" /\ pc = "round" /\ idx <= Len(run.tool_calls)
    /\ ~run.tool_calls[idx].arguments.valid

\* C20: at a call whose argument text is not valid JSON run_agent_with_tools
\* calls the handler of the function, if it has one, with no arguments at
\* all; whatever the handler does, one output is appended under the call's
\* id and the loop goes on with the next call.
C20_MalformedArgumentsAreEmpty ==
    [][AtMalformedArguments =>
        LET tc == run.tool_calls[idx]
        IN  /\ invoked' = IF tc.name \in ToolMap
                           THEN Append(invoked,
                                       [id |-> tc.id, target |-> tc.name, args |-> {}])
                           ELSE invoked
            /\ Len(outputs') = Len(outputs) + 1
            /\ SubSeq(outputs', 1, Len(outputs)) = outputs
            /\ outputs'[Len(outputs')].tool_call_id = tc.id
            /\ idx' = idx + 1 /\ pc' = "round"]_vars

\* run_agent_with_tools has submitted the batch of a round whose first call,
\* to a handler it has, came with malformed arguments: the handler was called
\* with no arguments and the call has its output
C20_Witness ==
    /\ driver = "single" /\ submits = 1 /\ Len(run.tool_calls) = 2
    /\ ~run.tool_calls[1].arguments.valid
    /\ run.tool_calls[1].name \in ToolMap
    /\ invoked[1] = [id |-> run.tool_calls[1].id,
                     target |-> run.tool_calls[1].name, args |-> {}]
    /\ lastSubmit[1].tool_call_id = run.tool_calls[1].id
    /\ Len(lastSubmit) = 2

\* tc names a function the driver does not know
UnknownFunction(tc) ==
    \/ driver = "orchestrator" /\ tc.name # "delegate_to_agent"
    \/ driver = "single" /\ tc.name \notin ToolMap

\* out is an error output of the call tc
ErrorOutput(out, tc) ==
    /\ out.tool_call_id = tc.id
    /\ out.output[1] = "json" /\ "error" \in DOMAIN out.output[2]

\* the driver is at a call of the round that names an unknown function
AtUnknownFunction ==
    /\ pc = "round" /\ idx <= Len(run.tool_calls)
    /\ UnknownFunction(run.tool_calls[idx])

\* C21: at a call that names a function the driver does not know, the
\* orchestrator and run_agent_with_tools execute nothing, append an error
\* output under the call's id and go on; the batch they submit holds that
\* error output.
C21_UnknownFunctionIsAnOutput ==
    [][/\ AtUnknownFunction =>
            /\ invoked' = invoked
            /\ Len(outputs') = Len(outputs) + 1
            /\ SubSeq(outputs', 1, Len(outputs)) = outputs
            /\ ErrorOutput(outputs'[Len(outputs')], run.tool_calls[idx])
            /\ idx' = idx + 1 /\ pc' = "round"
       /\ submits' > submits =>
            \A i \in 1..Len(run.tool_calls) :
                UnknownFunction(run.tool_calls[i]) =>
                    /\ ErrorOutput(lastSubmit'[i], run.tool_calls[i])
                    /\ \A k \in 1..Len(invoked) :
                          invoked[k].id # run.tool_calls[i].id]_vars

\* the orchestrator has submitted the batch of a round whose second call
\* named an unknown function and whose first call was sent to a provider
C21_Witness ==
    /\ driver = "orchestrator" /\ submits = 1 /\ Len(run.tool_calls) = 2
    /\ UnknownFunction(run.tool_calls[2])
    /\ ErrorOutput(lastSubmit[2], run.tool_calls[2])
    /\ Len(invoked) = 1 /\ invoked[1].id = run.tool_calls[1].id

\* ---------------------------------------------------- remote-tool results
\* call_tool has returned the result res for the call with the id, and the
\* driver has appended out for it
OutputFor(k, out) ==
    /\ driver \in {"bridge", "mslearn"}
    /\ k \in 1..Len(received) /\ ~received[k].raises
    /\ \E i \in 1..Len(outputs) :
          outputs[i].tool_call_id = invoked[k].id /\ outputs[i].output = out

\* the texts of the text segments of a result, in result order
SegmentTexts(res) ==
    LET texts == SelectSeq(res.content, LAMBDA c : c.type = "text")
    IN  [i \in 1..Len(texts) |-> texts[i].text]

\* C22: in the bridge and in _execute_mcp_tool the output text of a returned
\* result is the text of its text segments, in result order, joined with a
\* newline, and nothing else.
C22_OutputIsJoinedText ==
    \A k \in 1..Len(received) :
        \A i \in 1..Len(outputs) :
            OutputFor(k, outputs[i].output) =>
                outputs[i].output = Join(<<"\n">>, SegmentTexts(received[k]))

\* C23: in the bridge and in _execute_mcp_tool a returned result without a
\* text segment gives the empty text as the output of its call.
C23_NoTextGivesEmptyText ==
    \A k \in 1..Len(received) :
        \A i \in 1..Len(outputs) :
            (OutputFor(k, outputs[i].output) /\ SegmentTexts(received[k]) = << >>)
            => outputs[i].output = << >>

\* ------------------------------------------------------ order in a round
\* the place, in the order the runtime reported them, of the call that
\* invocation k was made for
PlaceOf(k) == CHOOSE j \in 1..Len(run.tool_calls) : run.tool_calls[j].id = invoked[k].id

\* C24: in a round the invocations are made one at a time in the order the
\* runtime reported the calls, each after the calls before it have their
\* outputs, and the outputs, in the list and in the submitted batch, stand in
\* that same order.
C24_RoundInReportedOrder ==
    /\ \A k \in 1..Len(invoked) :
          /\ \E j \in 1..Len(run.tool_calls) : run.tool_calls[j].id = invoked[k].id
          /\ \A h \in 1..(k - 1) : PlaceOf(h) < PlaceOf(k)
          /\ PlaceOf(k) <= Len(outputs) + 1
          /\ PlaceOf(k) = Len(outputs) + 1 => (k = Len(invoked) /\ pc = "raised")
    /\ \A i \in 1..Len(outputs) : outputs[i].tool_call_id = run.tool_calls[i].id
    /\ submits > 0 =>
          /\ Len(lastSubmit) = Len(run.tool_calls)
          /\ \A i \in 1..Len(lastSubmit) :
                lastSubmit[i].tool_call_id = run.tool_calls[i].id

\* _handle_tool_calls has submitted the batch of a round of two calls, both
\* executed
C24_Witness ==
    /\ driver = "mslearn" /\ submits = 1 /\ Len(run.tool_calls) = 2
    /\ Len(invoked) = 2 /\ PlaceOf(1) = 1 /\ PlaceOf(2) = 2
    /\ lastSubmit[1].tool_call_id = run.tool_calls[1].id
    /\ lastSubmit[2].tool_call_id = run.tool_calls[2].id

\* ------------------------------------------------- resolver, continued
\* the keyword of the nickname or heuristic rule that decided the result
KeywordOf(reason) ==
    IF reason \in {"nickname:title", "heuristic:title"} THEN S_title ELSE S_outline

\* C25: when the nickname rule or the task heuristic decides, the provider
\* returned is the first entry, in directory order, that offers the keyword
\* of the rule, however many entries offer it.
C25_FirstInDirectoryOrder ==
    (Resolved /\ resolution[2] \in {"nickname:title", "nickname:outline",
                                     "heuristic:title", "heuristic:outline"}) =>
        \E i \in 1..Len(directory) :
            /\ directory[i].name = resolution[1]
            /\ Offers(i, KeywordOf(resolution[2]))
            /\ \A j \in 1..(i - 1) : ~Offers(j, KeywordOf(resolution[2]))

\* the task heuristic has returned the first of two providers that both
\* offer an outline
C25_Witness ==
    /\ Resolved /\ Len(directory) = 2
    /\ Offers(1, S_outline) /\ Offers(2, S_outline)
    /\ resolution = <<directory[1].name, "heuristic:outline">>

\* ------------------------------------------------------------- addresses
\* get_remote_addresses has returned
AddressesReturned == driver = "addresses" /\ pc = "done"

\* where u occurs first in the list us
FirstAt(us, u) == CHOOSE k \in 1..Len(us) : us[k] = u /\ \A h \in 1..(k - 1) : us[h] # u

\* C26: the result of get_remote_addresses holds no address twice, holds
\* every configured address (the items of the CSV list, then the two slots),
\* and lists them in the order of their first occurrence.
C26_AddressesDeduplicated ==
    AddressesReturned =>
        LET configured == ConfiguredUrls(environ)
        IN  /\ \A i, j \in 1..Len(addresses) : addresses[i] = addresses[j] => i = j
            /\ {addresses[i] : i \in 1..Len(addresses)}
                  = {configured[i] : i \in 1..Len(configured)}
            /\ \A i, j \in 1..Len(addresses) :
                  i < j => FirstAt(configured, addresses[i])
                             < FirstAt(configured, addresses[j])

\* get_remote_addresses has returned two addresses where the CSV list named
\* two and the title slot repeated the first of them
C26_Witness ==
    /\ AddressesReturned
    /\ Len(CsvUrls(environ.REMOTE_AGENT_URLS)) = 2
    /\ environ.TITLE_AGENT_URL = <<"a">>
    /\ addresses = <<<<"a">>, <<"b">>>>

\* ------------------------------------------------- discovery, continued
\* C27: discovery fetches the addresses of its input list in input order,
\* each once, whether the fetch succeeds or fails, and has fetched them all
\* when it returns.
C27_OneFetchPerAddress ==
    driver = "orchestrator" =>
        /\ Len(fetched) <= Len(urls)
        /\ FetchedAddresses = SubSeq(urls, 1, Len(fetched))
        /\ Discovered => Len(fetched) = Len(urls)

\* discovery has returned after two addresses that both failed
C27_Witness ==
    /\ Discovered /\ Len(urls) = 2 /\ Len(fetched) = 2
    /\ fetched[1].card = FetchFailed /\ fetched[2].card = FetchFailed

\* C28: once discovery has returned, no step of run_orchestrator (status
\* read, resolution, remote send, submission, final listing) changes the
\* directory.
C28_DirectoryReadOnly ==
    [][Discovered => connections' = connections]_vars

\* the orchestrator has sent two calls of a round to the providers of a
\* directory of two entries, and submitted
C28_Witness ==
    /\ Discovered /\ Len(connections) = 2
    /\ submits = 1 /\ Len(invoked) = 2

\* C29: a name that resolve_agent_name returns is a key of the directory it
\* was given, and every remote send of the orchestrator goes to a key of its
\* directory, so that connections[agent_name] is always found.
C29_ResolvedNameIsKey ==
    /\ (Resolved /\ resolution[1] # None) => HasKey(directory, resolution[1])
    /\ driver = "orchestrator" =>
          \A k \in 1..Len(invoked) : HasKey(connections, invoked[k].target)

\* the resolver has returned, by the exact rule, a key that is not the text
\* it was asked for
C29_Witness ==
    /\ Resolved /\ reqName = <<"t","a">>
    /\ ~HasKey(directory, reqName)
    /\ resolution = <<N_TA, "exact">>

\* C30: a requested name that is, character for character, a name of the
\* directory resolves to that very name with reason exact, whatever other
\* names the directory holds.
C30_SameNameResolvesToItself ==
    (Resolved /\ reqName # << >> /\ HasKey(directory, reqName))
        => resolution = <<reqName, "exact">>

\* a step of a run driver that reads the run status inside its loop
LoopRead ==
    /\ driver \in {"orchestrator", "bridge", "mslearn", "single"}
    /\ pc = "poll" /\ pc' # "final"

\* C31: all four run drivers classify the status they read the same way:
\* they poll again exactly on queued and in_progress, handle a round exactly
\* on requires_action, and stop on every other status, also on one that is
\* none of the seven they name
C31_SameClassification ==
    [][LoopRead =>
          /\ (pc' = "poll" <=> run'.status \in {"queued", "in_progress"})
          /\ (pc' = "round" <=> run'.status = "requires_action")]_vars

\* a step of _handle_tool_calls that calls runs.get, and one that calls
\* submit_tool_outputs
MslReads == driver = "mslearn" /\ pc = "poll"
MslSubmits == driver = "mslearn" /\ pc = "round" /\ submits' # submits

\* C32: _handle_tool_calls reads the run status at most max_iterations + 1
\* times and submits at most max_iterations times: every status read either
\* advances the loop counter, which never passes max_iterations, or is the
\* one read after the loop; a submit is the first since the last status read
\* inside the loop, and there is none after the read that follows the loop.
C32_ReadsAndSubmitsBounded ==
    [][driver = "mslearn" =>
          /\ iteration' <= max_iterations
          /\ MslReads => \/ iteration' = iteration + 1 /\ ~finalRead'
                         \/ iteration' = iteration /\ ~finalRead /\ finalRead'
          /\ ~MslReads => iteration' = iteration /\ finalRead' = finalRead
          /\ MslSubmits => submits = 0 /\ submits' = 1 /\ ~finalRead
          /\ (~MslReads /\ ~MslSubmits) => submits' = submits]_vars

\* the budget was used up with a submit on the way, and the read after the
\* loop was made
C32_Witness ==
    /\ driver = "mslearn" /\ iteration = max_iterations /\ finalRead
    /\ everSubmitted /\ pc = "done"

\* what the completed branch inside the loop of _handle_tool_calls returns
\* for a thread
CompletedInLoop(th) ==
    IF HasAgentText(th)
    THEN [kind |-> "answer", text |-> LastOfListing(th), status |-> ""]
    ELSE [kind |-> "no-response", text |-> "", status |-> ""]

\* C33: when _handle_tool_calls returns for a run it read as completed, its
\* outcome is the one the completed branch of the loop gives for the thread,
\* whether completed was read inside the loop or by the read after it, with
\* an assistant message in the thread or without.
C33_CompletedSameInAndAfterLoop ==
    (driver = "mslearn" /\ pc = "done" /\ run.status = "completed") =>
        outcome = CompletedInLoop(thread)

\* C34: connect_and_run ends by returning a text, the response or the text
\* of the error, never by an exception; and when it has returned after the
\* agent was created, delete_agent was attempted exactly once, whether the
\* run was driven to its end, failed, used up the budget or was left by an
\* exception.  It is never attempted twice, nor without an agent.
C34_ReturnsTextAndDeletesOnce ==
    driver = "mslearn" =>
        /\ pc # "raised"
        /\ pc = "returned" =>
              /\ ~pending
              /\ result.kind \in {"response", "error"}
              /\ result.kind = "response" => result.value = outcome
              /\ agent # "none" => deletions = 1
        /\ deletions <= 1
        /\ agent = "none" => deletions = 0

\* connect_and_run returned the error text after a call of the agents client
\* raised in the loop of _handle_tool_calls and delete_agent raised as well
C34_Witness ==
    /\ driver = "mslearn" /\ pc = "returned" /\ result = ErrorText
    /\ iteration > 1 /\ everSubmitted /\ deletions = 1 /\ agent = "created"

\* connect_and_run returned the response of a run that used up the budget
C34_ExhaustedWitness ==
    /\ driver = "mslearn" /\ pc = "returned" /\ result = Response(outcome)
    /\ outcome.kind = "exhausted" /\ deletions = 1 /\ agent = "deleted"

\* C35: when run_orchestrator has ended, by returning or by an exception
\* raised while it handled a round, the orchestrator agent it created has
\* been deleted.
C35_OrchestratorAgentDeleted ==
    (driver = "orchestrator" /\ pc \in {"done", "raised"} /\ agent # "none") =>
        (agent = "deleted" /\ deletions = 1)

\* C36: every address get_remote_addresses returns is a non-empty text,
\* whatever the three environment variables hold, values of whitespace only
\* included.
C36_AddressesNonEmpty ==
    AddressesReturned => \A i \in 1..Len(addresses) : addresses[i] # << >>

\* the requests of the executor that have a text
WithText == {r \in 1..Len(requests) : ~NoInput(requests[r].parts)}

\* C37: however the execute requests of one executor interleave, at most one
\* TitleAgent is constructed and at most one create_agent call is made, and
\* a request that has text runs its conversation on that one agent, after
\* its creation has finished, never on a TitleAgent that has no agent yet.
C37_OneBackingAgent ==
    driver = "executor" =>
        /\ constructed <= 1 /\ created <= 1
        /\ \A r \in WithText : requests[r].ranOn \in {"not run", "created"}
        /\ \A r \in WithText :
              requests[r].at \in {"publish", "done"} =>
                  (requests[r].ranOn = "created" /\ foundry_agent.agent = "created")

\* the task updates _process_request makes for a request with text whose
\* conversation returned the given responses
UpdatesFor(responses) ==
    <<Working(M_processing)>>
        \o [i \in 1..Len(responses) |-> Working(responses[i])]
        \o <<Completed(IF responses # << >> THEN responses[Len(responses)]
                       ELSE M_task_completed)>>

\* the number of completions among the events
Completions(events) == Len(SelectSeq(events, LAMBDA e : e.state = "completed"))

\* C38: an execute request that has ended, by returning or by an exception,
\* has exactly one completion on its task, as the last event; for a request
\* with text the events are the working status, then each response of the
\* conversation as a working update in order, then the completion with the
\* last response or "Task completed.".  While it runs, the events are a
\* prefix of these.
C38_OneCompletionPerRequest ==
    driver = "executor" =>
        \A r \in 1..Len(requests) :
            LET q == requests[r]
            IN  /\ q.at \in {"done", "raised"} =>
                      /\ Completions(q.events) = 1
                      /\ q.events[Len(q.events)].state = "completed"
                /\ (q.at \in {"done", "raised"} /\ r \in WithText) =>
                      q.events = UpdatesFor(q.responses)
                /\ q.at = "publish" =>
                      q.events = SubSeq(UpdatesFor(q.responses), 1, Len(q.events))

\* execute handles request r, which has no text or only whitespace
HandlesNoInput(r) ==
    /\ driver = "executor" /\ requests[r].at = "start" /\ requests'[r].at # "start"
    /\ Strip(Join(<<"\n">>, text_inputs(requests[r].parts))) = << >>

\* C39: a request whose message has no text part, or only whitespace text,
\* is completed in the step that handles it, with the "No input text
\* provided" message as its only event: no working status, no TitleAgent
\* constructed, no create_agent call, and self._foundry_agent as it was.
C39_NoInputCompletedAtOnce ==
    [][\A r \in 1..Len(requests) :
          HandlesNoInput(r) =>
              /\ requests'[r].at = "done"
              /\ requests'[r].events = <<Completed(M_no_input)>>
              /\ requests'[r].ranOn = "not run"
              /\ foundry_agent' = foundry_agent
              /\ constructed' = constructed /\ created' = created]_vars

\* a whitespace-only request has been completed beside a request with text
\* that had the agent created before
C39_Witness ==
    /\ driver = "executor"
    /\ \E r, w \in 1..Len(requests) :
          /\ requests[r].parts = <<TextPart(<<" ">>), TextPart(<<" ">>)>>
          /\ requests[r].at = "done"
          /\ requests[w].at = "publish"
          /\ foundry_agent.agent = "created"

====
